---- MODULE Spec2Model ----
(***************************************************************************)
(* Model of youtube_sentiment/sentiment_analyzer.py: the response          *)
(* interpreter inside SentimentAnalyzer.analyze_comment, the retry loop of *)
(* SentimentAnalyzer.analyze_comments_batch and the summary computed by    *)
(* SentimentAnalyzer.analyze_video_comments.                               *)
(*                                                                         *)
(* A Python str is a sequence of lexemes.  A lexeme is one character, or a *)
(* chunk of characters that the code never cuts and that holds none of the *)
(* characters the code searches for (a JSON string or number literal, a    *)
(* word).  Python values are tagged records:                               *)
(*   [t |-> "str",  s |-> <<lexemes>>]     [t |-> "num", n |-> "0.9"]      *)
(*   [t |-> "list", l |-> <<values>>]      [t |-> "none"]                  *)
(*   [t |-> "dict", d |-> function from str keys to values]                *)
(***************************************************************************)
EXTENDS Integers, Sequences, FiniteSets, TLC

VARIABLES
    \* ---- analyze_comments_batch / analyze_video_comments ----
    entry,             \* "batch": analyze_comments_batch called directly; "video": through analyze_video_comments
    comments,          \* the argument comments
    batch_size,        \* the argument batch_size
    max_retries,       \* the argument max_retries
    pc,                \* position in the code
    i,                 \* outer loop variable (0-based start of the current batch)
    j,                 \* number of comments of the current batch already taken
    retry_count,       \* local retry_count
    sentiment_result,  \* local sentiment_result (PNone while None)
    results,           \* local results
    summary,           \* result["sentiment_summary"] (PNone until computed)
    run,               \* 1: first call; 2: a second call made on the first call's output
    \* ---- observers (not program state) ----
    calls,             \* number of self.model.generate_content calls of this run
    onlyPlainFailures, \* every model call of this run raised an error that is no quota error
    attempts,          \* number of loop iterations (line 221) made for the current item
    lastOutcome,       \* how the last attempt for the current item ended
    lastError,         \* str(e) of the error the last attempt raised to the loop (<<>>: none)
    waitedSinceCall,   \* a time.sleep call was made since the last model call (TRUE before the first)
    slept,             \* the time.sleep calls of the last step, in order: [kind, secs100] each
    fate,              \* per output item: how its processing ended
    \* ---- the response interpreter taken alone ----
    response_text,     \* the text of the model's response
    fenced_text,       \* response_text wrapped in a fenced code block
    result,            \* what analyze_comment returns for response_text
    fenced_result,     \* what analyze_comment returns for fenced_text
    \* ---- the truncation taken alone ----
    given_text,        \* comment["text"], the argument of analyze_comment
    prompt_text        \* comment_text as the prompt holds it (line 81)

batchVars == <<entry, comments, batch_size, max_retries, pc, i, j, retry_count,
               sentiment_result, results, summary, run, calls, onlyPlainFailures,
               attempts, lastOutcome, lastError, waitedSinceCall, slept, fate>>
interpVars == <<response_text, fenced_text, result, fenced_result>>
truncVars == <<given_text, prompt_text>>
vars == <<batchVars, interpVars, truncVars>>

-----------------------------------------------------------------------------
(* Python values *)

PStr(s) == [t |-> "str", s |-> s]
PNum(n) == [t |-> "num", n |-> n]
PList(l) == [t |-> "list", l |-> l]
PDict(d) == [t |-> "dict", d |-> d]
PNone == [t |-> "none"]

Word(w) == PStr(<<w>>)
EmptyDict == PDict(<<>>)

-----------------------------------------------------------------------------
(* str operations used by analyze_comment *)

Whitespace == {" ", "\n"}

RECURSIVE LStrip(_)
LStrip(s) == IF s # <<>> /\ Head(s) \in Whitespace THEN LStrip(Tail(s)) ELSE s

RECURSIVE RStrip(_)
RStrip(s) ==
    IF s # <<>> /\ s[Len(s)] \in Whitespace THEN RStrip(SubSeq(s, 1, Len(s) - 1)) ELSE s

\* str.strip()
Strip(s) == RStrip(LStrip(s))

\* str.startswith(p)
StartsWith(s, p) == Len(s) >= Len(p) /\ SubSeq(s, 1, Len(p)) = p

\* str.endswith(p)
EndsWith(s, p) == Len(s) >= Len(p) /\ SubSeq(s, Len(s) - Len(p) + 1, Len(s)) = p

\* s[n:]
DropFirst(s, n) == SubSeq(s, n + 1, Len(s))

\* s[:-n]
DropLast(s, n) == SubSeq(s, 1, Len(s) - n)

\* s[a:b] with 0 <= a, b <= len(s)
Slice(s, a, b) == SubSeq(s, a + 1, b)

\* str.find(c): 0-based index of the first occurrence, -1 if none
Find(s, c) ==
    IF \E k \in 1..Len(s) : s[k] = c
    THEN (CHOOSE k \in 1..Len(s) : s[k] = c /\ \A m \in 1..(k - 1) : s[m] # c) - 1
    ELSE -1

\* str.rfind(c): 0-based index of the last occurrence, -1 if none
RFind(s, c) ==
    IF \E k \in 1..Len(s) : s[k] = c
    THEN (CHOOSE k \in 1..Len(s) : s[k] = c /\ \A m \in (k + 1)..Len(s) : s[m] # c) - 1
    ELSE -1

\* the test (p in s) on two strs
Contains(s, p) ==
    \E k \in 0..(Len(s) - Len(p)) : SubSeq(s, k + 1, k + Len(p)) = p

\* the lexeme of the backquote character (a string cannot hold the character itself)
BQ == "<backquote>"

\* the prefix tested at line 119 and the marker tested at lines 121 and 123
FenceJson == <<BQ, BQ, BQ, "j", "s", "o", "n">>
Fence == <<BQ, BQ, BQ>>

-----------------------------------------------------------------------------
(* json.loads on the lexemes *)

\* JSON string literals and the str each stands for
StrLit ==
    ("\"sentiment\"" :> <<"sentiment">>) @@
    ("\"score\"" :> <<"score">>) @@
    ("\"key_phrases\"" :> <<"key_phrases">>) @@
    ("\"topics\"" :> <<"topics">>) @@
    ("\"emotional_tone\"" :> <<"emotional_tone">>) @@
    ("\"positive\"" :> <<"positive">>) @@
    ("\"negative\"" :> <<"negative">>) @@
    ("\"neutral\"" :> <<"neutral">>) @@
    ("\"great\"" :> <<"great">>) @@
    ("\"lang\"" :> <<"lang">>) @@
    ("\"sentiment score key_phrases topics emotional_tone\"" :>
        <<"sentiment", " ", "score", " ", "key_phrases", " ", "topics", " ", "emotional_tone">>)

\* JSON number literals
NumLit == {"0.9", "0.0"}

ParseFail == [ok |-> FALSE]
ParseOk(v, next) == [ok |-> TRUE, v |-> v, next |-> next]

RECURSIVE SkipWs(_, _)
SkipWs(s, k) == IF k <= Len(s) /\ s[k] \in Whitespace THEN SkipWs(s, k + 1) ELSE k

RECURSIVE ParseValue(_, _), ParseMembers(_, _, _), ParseElements(_, _, _)

\* one JSON value starting at or after position k0
ParseValue(s, k0) ==
    LET k == SkipWs(s, k0) IN
    IF k > Len(s) THEN ParseFail
    ELSE IF s[k] \in DOMAIN StrLit THEN ParseOk(PStr(StrLit[s[k]]), k + 1)
    ELSE IF s[k] \in NumLit THEN ParseOk(PNum(s[k]), k + 1)
    ELSE IF s[k] = "null" THEN ParseOk(PNone, k + 1)
    ELSE IF s[k] = "{" THEN
        LET m == SkipWs(s, k + 1) IN
        IF m <= Len(s) /\ s[m] = "}" THEN ParseOk(EmptyDict, m + 1)
        ELSE ParseMembers(s, k + 1, <<>>)
    ELSE IF s[k] = "[" THEN
        LET m == SkipWs(s, k + 1) IN
        IF m <= Len(s) /\ s[m] = "]" THEN ParseOk(PList(<<>>), m + 1)
        ELSE ParseElements(s, k + 1, <<>>)
    ELSE ParseFail

\* "key": value pairs up to the closing brace; a repeated key keeps the last value
ParseMembers(s, k0, d) ==
    LET k == SkipWs(s, k0) IN
    IF k > Len(s) \/ s[k] \notin DOMAIN StrLit THEN ParseFail
    ELSE
        LET c == SkipWs(s, k + 1) IN
        IF c > Len(s) \/ s[c] # ":" THEN ParseFail
        ELSE
            LET r == ParseValue(s, c + 1) IN
            IF ~r.ok THEN ParseFail
            ELSE
                LET e == SkipWs(s, r.next)
                    d2 == (StrLit[s[k]] :> r.v) @@ d
                IN  IF e > Len(s) THEN ParseFail
                    ELSE IF s[e] = "," THEN ParseMembers(s, e + 1, d2)
                    ELSE IF s[e] = "}" THEN ParseOk(PDict(d2), e + 1)
                    ELSE ParseFail

\* values up to the closing bracket
ParseElements(s, k0, l) ==
    LET r == ParseValue(s, k0) IN
    IF ~r.ok THEN ParseFail
    ELSE
        LET e == SkipWs(s, r.next)
            l2 == Append(l, r.v)
        IN  IF e > Len(s) THEN ParseFail
            ELSE IF s[e] = "," THEN ParseElements(s, e + 1, l2)
            ELSE IF s[e] = "]" THEN ParseOk(PList(l2), e + 1)
            ELSE ParseFail

\* json.loads(s): [ok |-> TRUE, v |-> value], or [ok |-> FALSE] for JSONDecodeError
JsonLoads(s) ==
    LET r == ParseValue(s, 1) IN
    IF r.ok /\ SkipWs(s, r.next) > Len(s) THEN [ok |-> TRUE, v |-> r.v] ELSE ParseFail

-----------------------------------------------------------------------------
(* analyze_comment, lines 102-187 *)

required_fields ==
    <<<<"sentiment">>, <<"score">>, <<"key_phrases">>, <<"topics">>, <<"emotional_tone">>>>

\* _create_default_result()
_create_default_result ==
    PDict((<<"sentiment">> :> Word("unknown")) @@
          (<<"score">> :> PNum("0.0")) @@
          (<<"key_phrases">> :> PList(<<>>)) @@
          (<<"topics">> :> PList(<<>>)) @@
          (<<"emotional_tone">> :> PList(<<>>)))

\* _get_default_value(field): defaults.get(field, None)
_get_default_value(field) ==
    IF field = <<"sentiment">> THEN Word("unknown")
    ELSE IF field = <<"score">> THEN PNum("0.0")
    ELSE IF field = <<"key_phrases">> THEN PList(<<>>)
    ELSE IF field = <<"topics">> THEN PList(<<>>)
    ELSE IF field = <<"emotional_tone">> THEN PList(<<>>)
    ELSE PNone

\* lines 116-126: strip, remove the code block markers, strip
CleanResponse(response_text0) ==
    LET t1 == Strip(response_text0)
        t2 == IF StartsWith(t1, FenceJson) THEN DropFirst(t1, 7) ELSE t1
        t3 == IF StartsWith(t2, Fence) THEN DropFirst(t2, 3) ELSE t2
        t4 == IF EndsWith(t3, Fence) THEN DropLast(t3, 3) ELSE t3
    IN  Strip(t4)

\* lines 129-148: the whole text as JSON, else the text from the first { to the
\* last }, else the default result
ParseResponse(text) ==
    LET whole == JsonLoads(text) IN
    IF whole.ok THEN whole.v
    ELSE
        LET start_idx == Find(text, "{")
            end_idx == RFind(text, "}") + 1
        IN  IF start_idx >= 0 /\ end_idx > start_idx
            THEN LET part == JsonLoads(Slice(text, start_idx, end_idx)) IN
                 IF part.ok THEN part.v ELSE _create_default_result
            ELSE _create_default_result

\* the test (field in result), line 153, where it does not raise
PyIn(field, r) ==
    IF r.t = "dict" THEN field \in DOMAIN r.d
    ELSE IF r.t = "list" THEN \E k \in 1..Len(r.l) : r.l[k] = PStr(field)
    ELSE IF r.t = "str" THEN Contains(r.s, field)
    ELSE FALSE

\* str(e) of the TypeError that lines 153-154 raise on a value that is no dict
TypeErrorText(r) ==
    IF r.t = "num" THEN <<"argument of type 'float' is not iterable">>
    ELSE IF r.t = "none" THEN <<"argument of type 'NoneType' is not iterable">>
    ELSE IF r.t = "list" THEN <<"list indices must be integers or slices, not str">>
    ELSE <<"'str' object does not support item assignment">>

Returned(v) == [raised |-> FALSE, v |-> v]
Raised(msg) == [raised |-> TRUE, msg |-> msg]

\* ValidateFields gone wrong: every required field is set to its default
RECURSIVE MutValidateFields(_, _)
MutValidateFields(r, k) ==
    IF k > Len(required_fields) THEN Returned(r)
    ELSE
        LET field == required_fields[k] IN
        IF r.t \in {"num", "none"} THEN Raised(TypeErrorText(r))
        ELSE IF r.t = "dict"
        THEN MutValidateFields(PDict((field :> _get_default_value(field)) @@ r.d), k + 1)
        ELSE IF PyIn(field, r) THEN MutValidateFields(r, k + 1)
        ELSE Raised(TypeErrorText(r))

\* lines 151-154, from the k-th required field on
RECURSIVE ValidateFields(_, _)
ValidateFields(r, k) ==
    IF k > Len(required_fields) THEN Returned(r)
    ELSE
        LET field == required_fields[k] IN
        IF r.t \in {"num", "none"} THEN Raised(TypeErrorText(r))
        ELSE IF PyIn(field, r) THEN ValidateFields(r, k + 1)
        ELSE IF r.t = "dict"
        THEN ValidateFields(PDict((field :> _get_default_value(field)) @@ r.d), k + 1)
        ELSE Raised(TypeErrorText(r))

\* lines 159-166: the value returned by the handler of line 157
ErrorResult(msg) ==
    PDict((<<"error">> :> PStr(msg)) @@
          (<<"sentiment">> :> Word("error")) @@
          (<<"score">> :> PNum("0.0")) @@
          (<<"key_phrases">> :> PList(<<>>)) @@
          (<<"topics">> :> PList(<<>>)) @@
          (<<"emotional_tone">> :> PList(<<>>)))

\* lines 115-156: what the code makes of the response text
Interpret(text) == ValidateFields(ParseResponse(CleanResponse(text)), 1)

\* TruncateComment gone wrong: 1000 characters are kept before the marker
MutTruncateComment(comment_text) ==
    IF Len(comment_text.s) > 1000
    THEN PStr(SubSeq(comment_text.s, 1, 1000) \o <<".", ".", ".">>)
    ELSE comment_text

\* lines 74-76
TruncateComment(comment_text) ==
    IF Len(comment_text.s) > 1000
    THEN PStr(SubSeq(comment_text.s, 1, 997) \o <<".", ".", ".">>)
    ELSE comment_text

\* A model call (lines 104-113) either returns a text or raises.
CallReturns(text) == [kind |-> "return", text |-> text]
CallRaises(msg) == [kind |-> "raise", msg |-> msg]

\* len(comment_text) at line 75 either returns or raises.
LenOk == [kind |-> "ok"]
LenRaises(msg) == [kind |-> "raise", msg |-> msg]

\* analyze_comment gone wrong: the error of the model call is raised to the caller
MutAnalyzeCommentReraise(lenOutcome, call) ==
    IF lenOutcome.kind = "raise" THEN Raised(lenOutcome.msg)
    ELSE IF call.kind = "raise" THEN Raised(call.msg)
    ELSE LET r == Interpret(call.text) IN
         IF r.raised THEN Returned(ErrorResult(r.msg)) ELSE r

\* analyze_comment(comment_text), lines 74-166, for one outcome of len() and one
\* outcome of the model call: Returned(value), or Raised(str(e)) to the caller
analyze_comment(lenOutcome, call) ==
    IF lenOutcome.kind = "raise" THEN Raised(lenOutcome.msg)
    ELSE IF call.kind = "raise" THEN Returned(ErrorResult(call.msg))
    ELSE LET r == Interpret(call.text) IN
         IF r.raised THEN Returned(ErrorResult(r.msg)) ELSE r

-----------------------------------------------------------------------------
(* The texts a model response may hold (response.text, lines 104-113) *)

\* how many filler words may stand before and after the JSON text of a response
MaxPad == 1

Required == {required_fields[k] : k \in 1..Len(required_fields)}

\* the string literal of a str
LitOf(s) == CHOOSE lit \in DOMAIN StrLit : StrLit[lit] = s

\* the keys of the generated objects, in the order they are written
KeyOrder == required_fields \o <<<<"lang">>>>

\* the values a generated object may give to a key
ValueChoices ==
    (<<"sentiment">> :> {Word("positive"), Word("negative"), Word("neutral")}) @@
    (<<"score">> :> {PNum("0.9"), PNum("0.0")}) @@
    (<<"key_phrases">> :> {PList(<<Word("great")>>)}) @@
    (<<"topics">> :> {PList(<<>>)}) @@
    (<<"emotional_tone">> :> {PList(<<Word("positive")>>), PNone}) @@
    (<<"lang">> :> {Word("neutral")})

JsonObjects ==
    UNION { { PDict(d) : d \in [K -> UNION {ValueChoices[k] : k \in K}] \cap
                              { f \in [K -> UNION {ValueChoices[k] : k \in K}] :
                                    \A k \in K : f[k] \in ValueChoices[k] } }
            : K \in SUBSET (DOMAIN ValueChoices) }

AllFiveList == PList([k \in 1..Len(required_fields) |-> PStr(required_fields[k])])
AllFiveStr == PStr(StrLit["\"sentiment score key_phrases topics emotional_tone\""])

JsonNonObjects ==
    { PNone, PNum("0.9"), Word("positive"), AllFiveStr, PList(<<>>),
      PList(<<Word("great")>>), AllFiveList,
      PList(<<PDict(<<"sentiment">> :> Word("positive"))>>) }

\* json.dumps: the compact JSON text of a value
RECURSIVE Dump(_), DumpMembers(_, _, _), DumpElements(_, _)
Dump(v) ==
    IF v.t = "str" THEN <<LitOf(v.s)>>
    ELSE IF v.t = "num" THEN <<v.n>>
    ELSE IF v.t = "none" THEN <<"null">>
    ELSE IF v.t = "list" THEN <<"[">> \o DumpElements(v.l, 1) \o <<"]">>
    ELSE <<"{">> \o DumpMembers(v.d, 1, TRUE) \o <<"}">>

DumpMembers(d, k, first) ==
    IF k > Len(KeyOrder) THEN <<>>
    ELSE IF KeyOrder[k] \notin DOMAIN d THEN DumpMembers(d, k + 1, first)
    ELSE (IF first THEN <<>> ELSE <<",">>) \o <<LitOf(KeyOrder[k]), ":">> \o
         Dump(d[KeyOrder[k]]) \o DumpMembers(d, k + 1, FALSE)

DumpElements(l, k) ==
    IF k > Len(l) THEN <<>>
    ELSE (IF k = 1 THEN <<>> ELSE <<",">>) \o Dump(l[k]) \o DumpElements(l, k + 1)

\* n filler words, each followed (before) or preceded (after) by a blank
RECURSIVE PadBefore(_), PadAfter(_)
PadBefore(n) == IF n = 0 THEN <<>> ELSE <<"Sure", " ">> \o PadBefore(n - 1)
PadAfter(n) == IF n = 0 THEN <<>> ELSE <<" ", "thanks">> \o PadAfter(n - 1)

JsonTexts == {Dump(v) : v \in JsonObjects \cup JsonNonObjects}

\* texts that hold no JSON value
NoJsonTexts ==
    { <<>>, <<" ">>, <<"Sure">>, <<"{">>, <<"}", "{">>, <<"{", "Sure", "}">>,
      <<"[", "Sure", "]">> }

\* a JSON text as a response may hold it: alone, cut short, repeated, or
\* between filler words
ContentTexts ==
    NoJsonTexts \cup
    { PadBefore(a) \o t \o PadAfter(b) : t \in JsonTexts, a \in 0..MaxPad, b \in 0..MaxPad } \cup
    { DropLast(t, 1) : t \in JsonTexts } \cup
    { t \o t : t \in JsonTexts }

\* the language hints of a fenced code block: none, json, py
Hints == { <<>>, <<"j", "s", "o", "n">>, <<"p", "y">> }

\* a content inside a fenced code block, the content on the fence lines
\* (newline = FALSE) or on lines of its own (newline = TRUE)
Wrap(content, hint, newline) ==
    LET nl == IF newline THEN <<"\n">> ELSE <<>> IN
    Fence \o hint \o nl \o content \o nl \o Fence

-----------------------------------------------------------------------------
(* The response interpreter taken alone: one response text, interpreted as it *)
(* is and inside a fenced code block                                          *)

Unset == [t |-> "unset"]

TruncIdle == given_text = PStr(<<>>) /\ prompt_text = Unset

BatchIdle ==
    /\ entry = "none" /\ comments = <<>> /\ batch_size = 0 /\ max_retries = 0
    /\ pc = "idle" /\ i = 0 /\ j = 0 /\ retry_count = 0 /\ sentiment_result = PNone
    /\ results = <<>> /\ summary = PNone /\ run = 0 /\ calls = 0
    /\ onlyPlainFailures = TRUE /\ attempts = 0
    /\ lastOutcome = "none" /\ lastError = <<>> /\ waitedSinceCall = TRUE
    /\ slept = <<>> /\ fate = <<>>

InitInterp ==
    /\ BatchIdle
    /\ TruncIdle
    /\ response_text \in ContentTexts
    /\ fenced_text = Unset
    /\ result = Unset
    /\ fenced_result = Unset

\* analyze_comment on a comment whose model call returns response_text
InterpretPlain ==
    /\ result = Unset
    /\ result' = analyze_comment(LenOk, CallReturns(response_text))
    /\ UNCHANGED <<batchVars, response_text, fenced_text, fenced_result, truncVars>>

\* analyze_comment on a comment whose model call returns response_text inside a
\* fenced code block
InterpretFenced ==
    /\ fenced_text = Unset
    /\ \E hint \in Hints, newline \in BOOLEAN :
        /\ fenced_text' = Wrap(response_text, hint, newline)
        /\ fenced_result' = analyze_comment(LenOk, CallReturns(fenced_text'))
    /\ UNCHANGED <<batchVars, response_text, result, truncVars>>

NextInterp == InterpretPlain \/ InterpretFenced

SpecInterp == InitInterp /\ [][NextInterp]_vars

-----------------------------------------------------------------------------
(* analyze_comments_batch, lines 189-267: inputs and constants *)

\* the longest list of comments
MaxComments == 2
\* the longest list of comments that all carry a sentiment record already
MaxAnalyzed == 5
\* the largest max_retries of a direct call
MaxRetries == 2
\* the batch_size values of a direct call: one comment per batch, several
BatchSizes == {1, 2}

\* the defaults of the parameters (lines 190-192); delays are in hundredths of a second
DefaultBatchSize == 10
rate_limit_delay == 200
DefaultMaxRetries == 3
\* line 244: time.sleep(15 * retry_count), in hundredths of a second
QuotaDelayStep == 1500

\* random.uniform(0.5, 1.5), in tenths: the two ends of the range
Jitters == {5, 15}

\* str(e) of the errors that reach a handler
KeyErrorText == <<"'", "t", "e", "x", "t", "'">>
QuotaText == <<"Q", "u", "o", "t", "a", " ", "exceeded">>
Http429Text == <<"4", "2", "9", " ", "limit">>
BoomText == <<"b", "o", "o", "m">>

\* what a failing model call raises
CallErrors == {QuotaText, BoomText}

\* what a failing __len__ raises
LenErrors == {QuotaText, Http429Text, BoomText}

\* str.lower() on the characters of the messages
LowerChar(c) == IF c = "Q" THEN "q" ELSE c

Lower(s) == [k \in 1..Len(s) |-> LowerChar(s[k])]

\* line 241
IsQuotaError(msg) ==
    \/ Contains(Lower(msg), <<"q", "u", "o", "t", "a">>)
    \/ Contains(msg, <<"4", "2", "9">>)

\* The text of a comment: a str, or an object that is no str and whose __len__
\* may raise (a lazily loaded text).
PlainText == PStr(<<"n", "i", "c", "e">>)
LazyText == [t |-> "object"]

\* what len(comment_text) at line 75 may do
LenOutcomes(comment_text) ==
    IF comment_text.t = "str" THEN {LenOk}
    ELSE {LenOk} \cup {LenRaises(m) : m \in LenErrors}

\* records a comment may already carry
FullRecord ==
    PDict((<<"sentiment">> :> Word("negative")) @@
          (<<"score">> :> PNum("0.9")) @@
          (<<"key_phrases">> :> PList(<<>>)) @@
          (<<"topics">> :> PList(<<>>)) @@
          (<<"emotional_tone">> :> PList(<<>>)))
BareRecord == PDict(<<"score">> :> PNum("0.9"))
LabelRecord(label) == PDict((<<"sentiment">> :> Word(label)) @@ FullRecord.d)

\* the comments that may stand at position n of the input
CommentsAt(n) ==
    { [id |-> n, text |-> PlainText],
      [id |-> n],
      [id |-> n, text |-> LazyText],
      [id |-> n, text |-> PlainText, sentiment_analysis |-> FullRecord],
      [id |-> n, text |-> PlainText, sentiment_analysis |-> BareRecord] }

CommentLists ==
    UNION { { c \in [1..n -> UNION {CommentsAt(k) : k \in 1..n}] :
                \A k \in 1..n : c[k] \in CommentsAt(k) } : n \in 0..MaxComments }

\* lists of comments that were analyzed before (a saved result analyzed again)
AnalyzedRecords == {LabelRecord("positive"), FullRecord, LabelRecord("neutral"), BareRecord}

AnalyzedLists ==
    UNION { { [k \in 1..n |-> [id |-> k, text |-> PlainText, sentiment_analysis |-> r[k]]] :
                r \in [1..n -> AnalyzedRecords] } : n \in (MaxComments + 1)..MaxAnalyzed }

\* the texts the model call returns during a batch
BatchTexts ==
    { Dump(PDict((<<"sentiment">> :> Word("positive")) @@ (<<"score">> :> PNum("0.9")))),
      <<"Sure">>,
      Dump(AllFiveList) }

\* what the model call of one attempt may do
CallOutcomes == {CallReturns(t) : t \in BatchTexts} \cup {CallRaises(m) : m \in CallErrors}

-----------------------------------------------------------------------------
(* analyze_comments_batch, lines 205-267: the loop *)

Min(a, b) == IF a <= b THEN a ELSE b

RECURSIVE Pow2(_)
Pow2(n) == IF n = 0 THEN 1 ELSE 2 * Pow2(n - 1)

\* Batch gone wrong: the slice runs one comment into the next batch
MutBatch == Slice(comments, Min(i, Len(comments)), Min(i + batch_size + 1, Len(comments)))

\* line 209: batch = comments[i:i+batch_size]
Batch == Slice(comments, Min(i, Len(comments)), Min(i + batch_size, Len(comments)))

\* line 211: the comment the inner loop is at
Comment == Batch[j + 1]

\* line 213
AlreadyAnalyzed(comment) == "sentiment_analysis" \in DOMAIN comment

\* WithSentiment gone wrong: a new dict with the id only, not a copy
MutWithSentiment(comment, sa) ==
    [k \in {"id", "sentiment_analysis"} |->
        IF k = "sentiment_analysis" THEN sa ELSE comment[k]]

\* lines 259-260: comment.copy() with the key sentiment_analysis set
WithSentiment(comment, sa) ==
    [k \in DOMAIN comment \cup {"sentiment_analysis"} |->
        IF k = "sentiment_analysis" THEN sa ELSE comment[k]]

\* lines 248-249 and 255-256: the default result with an error text
DefaultWithError(msg) == PDict((<<"error">> :> PStr(msg)) @@ _create_default_result.d)

MaxRetriesExceededText == <<"Max retries exceeded">>

\* BackoffDelay gone wrong: the delay is not doubled with each retry
MutBackoffDelay(retries, jitter) ==
    IF retries > 0 THEN (rate_limit_delay * jitter) \div 10 ELSE 0

\* lines 224-231: the wait before an attempt, in hundredths of a second
\* (0: no time.sleep call)
BackoffDelay(retries, jitter) ==
    IF retries > 0 THEN (rate_limit_delay * jitter * Pow2(retries)) \div 10 ELSE 0

\* line 234: comment["text"] and the call of analyze_comment
AttemptOutcome(comment, lenOutcome, call) ==
    IF "text" \notin DOMAIN comment THEN Raised(KeyErrorText)
    ELSE analyze_comment(lenOutcome, call)

\* whether the attempt reaches self.model.generate_content (line 104)
ReachesModel(comment, lenOutcome) ==
    "text" \in DOMAIN comment /\ lenOutcome.kind = "ok"

\* the outcomes of len() the comment allows
LenOutcomesOf(comment) ==
    IF "text" \in DOMAIN comment THEN LenOutcomes(comment.text) ELSE {LenOk}

\* Handler gone wrong: retry_count is not incremented
MutHandlerNoCount(msg, retries, sa, limit) ==
    [retry_count |-> retries, sentiment_result |-> sa, slept |-> 0, propagates |-> FALSE]

\* Handler gone wrong: the last failure is raised again instead of recorded
MutHandlerReraise(msg, retries, sa, limit) ==
    LET n == retries + 1 IN
    IF IsQuotaError(msg)
    THEN [retry_count |-> n, sentiment_result |-> sa, slept |-> QuotaDelayStep * n,
          propagates |-> FALSE]
    ELSE IF n >= limit
    THEN [retry_count |-> n, sentiment_result |-> sa, slept |-> 0, propagates |-> TRUE]
    ELSE [retry_count |-> n, sentiment_result |-> sa, slept |-> 0, propagates |-> FALSE]

\* lines 239-251: the handler, for the error text msg: the new retry_count, the
\* new sentiment_result, the quota wait (0: none), and whether the error leaves
\* the function
Handler(msg, retries, sa, limit) ==
    LET n == retries + 1 IN
    IF IsQuotaError(msg)
    THEN [retry_count |-> n, sentiment_result |-> sa, slept |-> QuotaDelayStep * n,
          propagates |-> FALSE]
    ELSE IF n >= limit
    THEN [retry_count |-> n, sentiment_result |-> DefaultWithError(msg), slept |-> 0,
          propagates |-> FALSE]
    ELSE [retry_count |-> n, sentiment_result |-> sa, slept |-> 0, propagates |-> FALSE]

\* lines 254-256
FinalResult(sa) == IF sa = PNone THEN DefaultWithError(MaxRetriesExceededText) ELSE sa

\* one time.sleep call, seen by the observers
Slept(kind, secs100) == [kind |-> kind, secs100 |-> secs100]

InitBatch(e, c, bs, mr, r) ==
    /\ entry = e /\ comments = c /\ batch_size = bs /\ max_retries = mr /\ run = r
    /\ pc = "for_batch" /\ i = 0 /\ j = 0
    /\ retry_count = 0 /\ sentiment_result = PNone
    /\ results = <<>> /\ summary = PNone
    /\ calls = 0 /\ onlyPlainFailures = TRUE /\ attempts = 0 /\ lastOutcome = "none"
    /\ lastError = <<>> /\ waitedSinceCall = TRUE
    /\ slept = <<>> /\ fate = <<>>

InterpIdle ==
    /\ response_text = <<>> /\ fenced_text = Unset
    /\ result = Unset /\ fenced_result = Unset

\* analyze_comments_batch called directly with its parameters, or by
\* analyze_video_comments (line 281) with the defaults
Init ==
    /\ InterpIdle
    /\ TruncIdle
    /\ \/ \E c \in CommentLists, bs \in BatchSizes, mr \in 0..MaxRetries :
            InitBatch("batch", c, bs, mr, 1)
       \/ \E c \in CommentLists \cup AnalyzedLists :
            InitBatch("video", c, DefaultBatchSize, DefaultMaxRetries, 1)

\* line 208: the outer loop takes the next batch
StartBatch ==
    /\ pc = "for_batch"
    /\ i < Len(comments)
    /\ pc' = "for_comment"
    /\ j' = 0
    /\ UNCHANGED <<entry, comments, batch_size, max_retries, i, retry_count,
                   sentiment_result, results, summary, run, calls, onlyPlainFailures, attempts, lastOutcome, lastError, waitedSinceCall,
                   fate, interpVars, truncVars>>
    /\ slept' = <<>>

\* line 211: the inner loop is through with the batch
EndBatch ==
    /\ pc = "for_comment"
    /\ j >= Len(Batch)
    /\ i' = i + batch_size
    /\ pc' = "for_batch"
    /\ UNCHANGED <<entry, comments, batch_size, max_retries, j, retry_count,
                   sentiment_result, results, summary, run, calls, onlyPlainFailures, attempts, lastOutcome, lastError, waitedSinceCall,
                   fate, interpVars, truncVars>>
    /\ slept' = <<>>

\* SkipAnalyzed gone wrong: the rate limit delay is slept before the continue
MutSkipAnalyzed ==
    /\ pc = "for_comment"
    /\ j < Len(Batch)
    /\ AlreadyAnalyzed(Comment)
    /\ results' = Append(results, Comment)
    /\ fate' = Append(fate, "skip")
    /\ j' = j + 1
    /\ slept' = <<Slept("rate", rate_limit_delay)>>
    /\ UNCHANGED <<entry, comments, batch_size, max_retries, pc, i, retry_count,
                   sentiment_result, summary, run, calls, onlyPlainFailures, attempts, lastOutcome, lastError, waitedSinceCall, interpVars, truncVars>>

\* lines 213-215: a comment that carries sentiment_analysis is appended as it is
SkipAnalyzed ==
    /\ pc = "for_comment"
    /\ j < Len(Batch)
    /\ AlreadyAnalyzed(Comment)
    /\ results' = Append(results, Comment)
    /\ fate' = Append(fate, "skip")
    /\ j' = j + 1
    /\ slept' = <<>>
    /\ UNCHANGED <<entry, comments, batch_size, max_retries, pc, i, retry_count,
                   sentiment_result, summary, run, calls, onlyPlainFailures, attempts, lastOutcome, lastError, waitedSinceCall, interpVars, truncVars>>

\* lines 218-219
BeginComment ==
    /\ pc = "for_comment"
    /\ j < Len(Batch)
    /\ ~AlreadyAnalyzed(Comment)
    /\ retry_count' = 0
    /\ sentiment_result' = PNone
    /\ attempts' = 0
    /\ lastOutcome' = "none"
    /\ lastError' = <<>>
    /\ slept' = <<>>
    /\ pc' = "while"
    /\ UNCHANGED <<entry, comments, batch_size, max_retries, i, j, results, summary,
                   run, calls, onlyPlainFailures, waitedSinceCall, fate, interpVars, truncVars>>

\* lines 221-237: an attempt in which analyze_comment returns
AttemptReturns ==
    /\ pc = "while"
    /\ retry_count < max_retries
    /\ \E lenOutcome \in LenOutcomesOf(Comment), call \in CallOutcomes, jitter \in Jitters :
        LET out == AttemptOutcome(Comment, lenOutcome, call)
            backoff == BackoffDelay(retry_count, jitter)
        IN  /\ ~out.raised
            /\ sentiment_result' = out.v
            /\ calls' = IF ReachesModel(Comment, lenOutcome) THEN calls + 1 ELSE calls
            /\ onlyPlainFailures' =
                    IF ReachesModel(Comment, lenOutcome)
                    THEN onlyPlainFailures /\ call.kind = "raise" /\ ~IsQuotaError(call.msg)
                    ELSE onlyPlainFailures
            /\ slept' = IF backoff > 0 THEN <<Slept("backoff", backoff)>> ELSE <<>>
            /\ lastOutcome' = IF call.kind = "raise" THEN "call_raised" ELSE "returned"
            /\ waitedSinceCall' =
                    IF ReachesModel(Comment, lenOutcome) THEN FALSE
                    ELSE waitedSinceCall \/ backoff > 0
    /\ lastError' = <<>>
    /\ attempts' = attempts + 1
    /\ pc' = "attach"
    /\ UNCHANGED <<entry, comments, batch_size, max_retries, i, j, retry_count, results,
                   summary, run, fate, interpVars, truncVars>>

\* lines 221-234 and 239-251: an attempt in which comment["text"] or
\* analyze_comment raises, and the handler
AttemptRaises ==
    /\ pc = "while"
    /\ retry_count < max_retries
    /\ \E lenOutcome \in LenOutcomesOf(Comment), call \in CallOutcomes, jitter \in Jitters :
        LET out == AttemptOutcome(Comment, lenOutcome, call)
            backoff == BackoffDelay(retry_count, jitter)
            h == Handler(out.msg, retry_count, sentiment_result, max_retries)
        IN  /\ out.raised
            /\ calls' = IF ReachesModel(Comment, lenOutcome) THEN calls + 1 ELSE calls
            /\ onlyPlainFailures' =
                    IF ReachesModel(Comment, lenOutcome)
                    THEN onlyPlainFailures /\ call.kind = "raise" /\ ~IsQuotaError(call.msg)
                    ELSE onlyPlainFailures
            /\ retry_count' = h.retry_count
            /\ sentiment_result' = h.sentiment_result
            /\ slept' = (IF backoff > 0 THEN <<Slept("backoff", backoff)>> ELSE <<>>) \o
                         (IF h.slept > 0 THEN <<Slept("quota", h.slept)>> ELSE <<>>)
            /\ pc' = IF h.propagates THEN "escaped" ELSE "while"
            /\ lastError' = out.msg
            /\ waitedSinceCall' =
                    IF ReachesModel(Comment, lenOutcome) THEN h.slept > 0
                    ELSE waitedSinceCall \/ backoff > 0 \/ h.slept > 0
    /\ attempts' = attempts + 1
    /\ lastOutcome' = "raised"
    /\ UNCHANGED <<entry, comments, batch_size, max_retries, i, j, results, summary, run,
                   fate, interpVars, truncVars>>

\* Attach gone wrong: the record is set on the comment itself, not on a copy
MutAttach ==
    /\ \/ pc = "attach"
       \/ pc = "while" /\ retry_count >= max_retries
    /\ results' = Append(results, WithSentiment(Comment, FinalResult(sentiment_result)))
    /\ comments' = [comments EXCEPT ![i + j + 1] =
                        WithSentiment(Comment, FinalResult(sentiment_result))]
    /\ fate' = Append(fate, lastOutcome)
    /\ slept' = IF retry_count = 0 THEN <<Slept("rate", rate_limit_delay)>> ELSE <<>>
    /\ lastError' = <<>>
    /\ waitedSinceCall' = (waitedSinceCall \/ retry_count = 0)
    /\ j' = j + 1
    /\ pc' = "for_comment"
    /\ UNCHANGED <<entry, batch_size, max_retries, i, retry_count,
                   sentiment_result, summary, run, calls, onlyPlainFailures, attempts, lastOutcome,
                   interpVars, truncVars>>

\* lines 253-265: the loop is left (break, or retry_count >= max_retries) and the
\* result is attached to a copy of the comment
Attach ==
    /\ \/ pc = "attach"
       \/ pc = "while" /\ retry_count >= max_retries
    /\ results' = Append(results, WithSentiment(Comment, FinalResult(sentiment_result)))
    /\ fate' = Append(fate, lastOutcome)
    /\ slept' = IF retry_count = 0 THEN <<Slept("rate", rate_limit_delay)>> ELSE <<>>
    /\ lastError' = <<>>
    /\ waitedSinceCall' = (waitedSinceCall \/ retry_count = 0)
    /\ j' = j + 1
    /\ pc' = "for_comment"
    /\ UNCHANGED <<entry, comments, batch_size, max_retries, i, retry_count,
                   sentiment_result, summary, run, calls, onlyPlainFailures, attempts, lastOutcome,
                   interpVars, truncVars>>

\* line 267
Return ==
    /\ pc = "for_batch"
    /\ i >= Len(comments)
    /\ pc' = "done"
    /\ UNCHANGED <<entry, comments, batch_size, max_retries, i, j, retry_count,
                   sentiment_result, results, summary, run, calls, onlyPlainFailures, attempts, lastOutcome, lastError, waitedSinceCall,
                   fate, interpVars, truncVars>>
    /\ slept' = <<>>

\* A caller passes the list a direct call returned to a second direct call.
CallAgain ==
    /\ pc = "done"
    /\ entry = "batch"
    /\ run = 1
    /\ comments' = results
    /\ run' = 2
    /\ pc' = "for_batch" /\ i' = 0 /\ j' = 0
    /\ retry_count' = 0 /\ sentiment_result' = PNone
    /\ results' = <<>>
    /\ calls' = 0 /\ onlyPlainFailures' = TRUE /\ attempts' = 0 /\ lastOutcome' = "none"
    /\ lastError' = <<>> /\ waitedSinceCall' = TRUE
    /\ slept' = <<>> /\ fate' = <<>>
    /\ UNCHANGED <<entry, batch_size, max_retries, summary, interpVars, truncVars>>

-----------------------------------------------------------------------------
(* analyze_video_comments, lines 279-301 *)

\* lines 289-292: the keys of sentiment_counts in the order they are inserted
SummaryLabels == <<"positive", "negative", "neutral", "unknown">>

\* lines 285-286, for one comment: whether the comprehension raises on it
SentimentRaises(c) ==
    /\ AlreadyAnalyzed(c)
    /\ \/ c.sentiment_analysis.t \in {"num", "none"}
       \/ /\ c.sentiment_analysis.t \in {"list", "str"}
          /\ PyIn(<<"sentiment">>, c.sentiment_analysis)

\* lines 285-286, for one comment: whether it adds an element to sentiments
HasSentiment(c) ==
    /\ AlreadyAnalyzed(c)
    /\ c.sentiment_analysis.t = "dict"
    /\ <<"sentiment">> \in DOMAIN c.sentiment_analysis.d

\* lines 285-286: sentiments
RECURSIVE Sentiments(_)
Sentiments(cs) ==
    IF cs = <<>> THEN <<>>
    ELSE (IF HasSentiment(Head(cs))
          THEN <<Head(cs).sentiment_analysis.d[<<"sentiment">>]>> ELSE <<>>)
         \o Sentiments(Tail(cs))

\* list.count(x)
Count(l, x) == Cardinality({k \in 1..Len(l) : l[k] = x})

\* lines 288-293: sentiment_counts
SentimentCounts(cs) ==
    LET sentiments == Sentiments(cs) IN
    [positive |-> Count(sentiments, Word("positive")),
     negative |-> Count(sentiments, Word("negative")),
     neutral |-> Count(sentiments, Word("neutral")),
     unknown |-> Len(cs) - Len(sentiments)]

\* MaxKey gone wrong: the last key with the largest count
RECURSIVE MutMaxKey(_, _, _)
MutMaxKey(counts, k, best) ==
    IF k > Len(SummaryLabels) THEN best
    ELSE MutMaxKey(counts, k + 1,
                   IF counts[SummaryLabels[k]] >= counts[best] THEN SummaryLabels[k] ELSE best)

\* line 298: max(sentiment_counts, key=sentiment_counts.get): the first key, in
\* insertion order, with the largest count
RECURSIVE MaxKey(_, _, _)
MaxKey(counts, k, best) ==
    IF k > Len(SummaryLabels) THEN best
    ELSE MaxKey(counts, k + 1,
                IF counts[SummaryLabels[k]] > counts[best] THEN SummaryLabels[k] ELSE best)

\* lines 295-299
SentimentSummary(cs) ==
    LET counts == SentimentCounts(cs) IN
    [counts |-> counts,
     total_comments |-> Len(cs),
     overall_sentiment |-> MaxKey(counts, 2, SummaryLabels[1])]

\* lines 284-301, after analyze_comments_batch has returned to line 281
Summarize ==
    /\ pc = "done"
    /\ entry = "video"
    /\ IF \E k \in 1..Len(results) : SentimentRaises(results[k])
       THEN pc' = "summary_raised" /\ summary' = summary
       ELSE pc' = "summarized" /\ summary' = SentimentSummary(results)
    /\ UNCHANGED <<entry, comments, batch_size, max_retries, i, j, retry_count,
                   sentiment_result, results, run, calls, onlyPlainFailures, attempts, lastOutcome, lastError, waitedSinceCall, fate,
                   interpVars, truncVars>>
    /\ slept' = <<>>

-----------------------------------------------------------------------------

Next ==
    \/ StartBatch
    \/ EndBatch
    \/ SkipAnalyzed
    \/ BeginComment
    \/ AttemptReturns
    \/ AttemptRaises
    \/ Attach
    \/ Return
    \/ CallAgain
    \/ Summarize

Spec == Init /\ [][Next]_vars

-----------------------------------------------------------------------------
(* The truncation of analyze_comment taken alone, lines 74-81: one comment    *)
(* text, a character per lexeme, and the text the prompt is built from        *)

\* how far below and above 1000 characters the lengths of the texts go
TruncSpan == 10

\* the characters of the texts
TextChars == <<"a", "b", "c">>

\* the text of n characters that starts at the p-th character of a b c a b c ...
TextOf(n, p) == PStr([k \in 1..n |-> TextChars[((k + p) % 3) + 1]])

\* the lengths of the texts: short ones, and those around 1000
TextLengths == 0..2 \cup ((1000 - TruncSpan)..(1000 + TruncSpan))

CommentTexts == {TextOf(n, p) : n \in TextLengths, p \in 0..2}

InitTruncate ==
    /\ BatchIdle
    /\ InterpIdle
    /\ given_text \in CommentTexts
    /\ prompt_text = Unset

\* lines 74-81: analyze_comment(given_text) up to the prompt
BuildPrompt ==
    /\ prompt_text = Unset
    /\ prompt_text' = TruncateComment(given_text)
    /\ UNCHANGED <<batchVars, interpVars, given_text>>

NextTruncate == BuildPrompt

SpecTruncate == InitTruncate /\ [][NextTruncate]_vars

-----------------------------------------------------------------------------
(* Properties of analyze_comments_batch *)

\* analyze_comments_batch has returned (line 267)
BatchReturned == pc \in {"done", "summarized", "summary_raised"}

\* the record the k-th output comment carries
RecordOf(k) == results[k].sentiment_analysis

\* a value is a dict with a non-empty error text
HasErrorText(v) ==
    /\ v.t = "dict"
    /\ <<"error">> \in DOMAIN v.d
    /\ v.d[<<"error">>].t = "str"
    /\ v.d[<<"error">>].s # <<>>

\* a value is a dict whose sentiment is the given label
HasLabel(v, label) ==
    /\ v.t = "dict"
    /\ <<"sentiment">> \in DOMAIN v.d
    /\ v.d[<<"sentiment">>] = Word(label)

\* C1: when analyze_comments_batch returns, the output is as long as the input,
\* the k-th output comment has the fields and values of the k-th input comment
\* and carries the key sentiment_analysis; for the empty list the output is
\* empty and no model call was made.
C1_OrderAndLengthPreserved ==
    BatchReturned =>
        /\ Len(results) = Len(comments)
        /\ \A k \in 1..Len(results) :
            /\ DOMAIN results[k] = DOMAIN comments[k] \cup {"sentiment_analysis"}
            /\ \A f \in DOMAIN comments[k] : results[k][f] = comments[k][f]
        /\ comments = <<>> => results = <<>> /\ calls = 0

\* a run of two comments, the first given up after failed attempts, the second
\* answered by the model
C1_Witness ==
    /\ pc = "done" /\ run = 1
    /\ Len(comments) = 2 /\ Len(results) = 2
    /\ fate = <<"raised", "returned">>
    /\ results[1].id = 1 /\ results[2].id = 2

\* the loop is at a comment that carries sentiment_analysis
AtAnalyzedComment == pc = "for_comment" /\ j < Len(Batch) /\ AlreadyAnalyzed(Comment)

\* C2: the step taken at a comment that carries sentiment_analysis appends that
\* comment unchanged and makes no model call and no time.sleep call; a second
\* call on the list a first call returned ends with that same list and without
\* any model call.
C2_AnalyzedPassedThrough ==
    [][ /\ AtAnalyzedComment =>
            /\ results' = Append(results, Comment)
            /\ calls' = calls
            /\ slept' = <<>>
        /\ (run' = 2 /\ pc' = "done") => (results' = comments' /\ calls' = 0)
      ]_vars

\* a second call has returned a list of two comments, one of them analyzed by the
\* first call
C2_Witness ==
    /\ run = 2 /\ pc = "done"
    /\ Len(results) = 2
    /\ results[1].sentiment_analysis \in {FullRecord, BareRecord}
    /\ HasErrorText(results[2].sentiment_analysis)

\* the input comments all have a str text and carry no sentiment record
AllPlainComments ==
    \A k \in 1..Len(comments) :
        /\ ~AlreadyAnalyzed(comments[k])
        /\ "text" \in DOMAIN comments[k]
        /\ comments[k].text.t = "str"

\* C3 (as claimed): when every model call raises an error that is no quota
\* error, a run over N comments without a sentiment record returns N records
\* with label unknown and a non-empty error text, after N * max_retries model
\* calls.
C3_RetriesUntilMaxRetries ==
    (pc = "done" /\ run = 1 /\ AllPlainComments /\ onlyPlainFailures) =>
        /\ Len(results) = Len(comments)
        /\ \A k \in 1..Len(results) :
            HasLabel(RecordOf(k), "unknown") /\ HasErrorText(RecordOf(k))
        /\ calls = Len(comments) * max_retries

\* the record of the k-th output comment is what analyze_comment returned, or
\* the default result with an error text
TerminalRecord(k) ==
    \/ fate[k] = "skip"
    \/ fate[k] \in {"returned", "call_raised"}
    \/ /\ fate[k] \in {"raised", "none"}
       /\ HasErrorText(RecordOf(k))
       /\ RecordOf(k) = DefaultWithError(RecordOf(k).d[<<"error">>].s)

AllTerminated ==
    /\ BatchReturned
    /\ Len(results) = Len(comments)
    /\ Len(fate) = Len(comments)
    /\ \A k \in 1..Len(results) : TerminalRecord(k)

\* the steps a call of analyze_comments_batch can still take before it returns,
\* at most: max_retries + 2 for each comment not begun, the attempts left and
\* the attaching for the comment begun, two for each batch not ended, one to
\* return
Rank ==
    LET remaining == Len(comments) - Len(results)
        perComment == max_retries + 2
        commentsPart ==
            IF pc = "while" THEN (remaining - 1) * perComment + (max_retries - retry_count) + 1
            ELSE IF pc = "attach" THEN (remaining - 1) * perComment + 1
            ELSE remaining * perComment
        positions == IF i < Len(comments) THEN Len(comments) - i ELSE 0
        batchesPart == 2 * positions + (IF pc = "for_batch" THEN 1 ELSE 0)
    IN  IF BatchReturned THEN 0 ELSE commentsPart + batchesPart

\* an attempt can be made: the loop condition of line 221 holds, and len() and
\* the model call have an outcome (each outcome is a return or a raise, and
\* AttemptReturns and AttemptRaises take every one of them)
AttemptPossible ==
    /\ pc = "while"
    /\ retry_count < max_retries
    /\ LenOutcomesOf(Comment) # {}
    /\ CallOutcomes # {}

\* a step of the call is possible
CanStep ==
    \/ ENABLED StartBatch
    \/ ENABLED EndBatch
    \/ ENABLED SkipAnalyzed
    \/ ENABLED BeginComment
    \/ AttemptPossible
    \/ ENABLED Attach
    \/ ENABLED Return

\* C4: every call of analyze_comments_batch returns: before the return a step
\* is always possible and every step lowers Rank, which is never negative.  No
\* comment gets more than max_retries attempts, none is dropped, and each one
\* that had no record ends with the record analyze_comment returned or with
\* the default record and an error text.
C4_BatchTerminates ==
    /\ [](attempts <= max_retries)
    /\ [](Rank >= 0)
    /\ [](~BatchReturned => CanStep)
    /\ [][~BatchReturned => Rank' < Rank]_vars
    /\ [](BatchReturned => AllTerminated)

\* a run that gave one comment max_retries attempts, all failed, and returned
C4_Witness ==
    /\ pc = "done" /\ run = 1
    /\ max_retries = 2
    /\ Len(comments) = 2
    /\ fate = <<"raised", "call_raised">>
    /\ attempts = 1

\* C5: no error raised while a comment is processed leaves
\* analyze_comments_batch; a comment whose last attempt failed carries a record
\* with an error text, and the comments after it are processed.
C5_FailuresContained ==
    /\ pc # "escaped"
    /\ \A k \in 1..Len(fate) : fate[k] \in {"raised", "call_raised"} => HasErrorText(RecordOf(k))
    /\ BatchReturned => Len(results) = Len(comments)

\* the first comment failed on a missing text and on quota errors, the second
\* was processed after it
C5_Witness ==
    /\ pc = "done" /\ run = 1
    /\ Len(results) = 2
    /\ fate[1] = "raised"
    /\ RecordOf(1).d[<<"error">>].s \in {KeyErrorText, MaxRetriesExceededText}
    /\ fate[2] \in {"returned", "call_raised"}

-----------------------------------------------------------------------------
(* Properties of the summary *)

\* C10: the summary has total_comments equal to the number of input comments,
\* and overall_sentiment is the label with the highest count in the summary,
\* the first such label in the order positive, negative, neutral, unknown.
C10_SummaryOverall ==
    pc = "summarized" =>
        /\ summary.total_comments = Len(comments)
        /\ \E k \in 1..Len(SummaryLabels) :
            /\ summary.overall_sentiment = SummaryLabels[k]
            /\ \A m \in 1..Len(SummaryLabels) :
                summary.counts[SummaryLabels[m]] <= summary.counts[SummaryLabels[k]]
            /\ \A m \in 1..(k - 1) :
                summary.counts[SummaryLabels[m]] < summary.counts[SummaryLabels[k]]

\* counts {positive: 3, negative: 1, neutral: 1} give positive
C10_Witness ==
    /\ pc = "summarized"
    /\ summary.counts = [positive |-> 3, negative |-> 1, neutral |-> 1, unknown |-> 0]
    /\ summary.total_comments = 5
    /\ summary.overall_sentiment = "positive"

-----------------------------------------------------------------------------
(* Properties of the response interpreter *)

\* the value is a record with the five required fields
IsFullRecord(v) == v.t = "dict" /\ Required \subseteq DOMAIN v.d

\* C6 (as claimed): whatever the response text, analyze_comment returns without
\* raising a record that has the five fields sentiment, score, key_phrases,
\* topics and emotional_tone, and so is every record the batch loop attaches to
\* a comment that carried none.
C6_AlwaysFiveFields ==
    /\ result # Unset => ~result.raised /\ IsFullRecord(result.v)
    /\ fenced_result # Unset => ~fenced_result.raised /\ IsFullRecord(fenced_result.v)
    /\ \A k \in 1..Len(results) : fate[k] # "skip" => IsFullRecord(RecordOf(k))

\* the JSON objects parsed from a response text: the whole cleaned text, or
\* failing that the part from its first { to its last }
ObjectsParsedFrom(text) ==
    LET cleaned == CleanResponse(text)
        whole == JsonLoads(cleaned)
        first == Find(cleaned, "{")
        last == RFind(cleaned, "}")
    IN  IF whole.ok
        THEN IF whole.v.t = "dict" THEN {whole.v} ELSE {}
        ELSE IF first >= 0 /\ last >= first
        THEN LET part == JsonLoads(Slice(cleaned, first, last + 1)) IN
             IF part.ok /\ part.v.t = "dict" THEN {part.v} ELSE {}
        ELSE {}

\* the defaults of the five required keys, as C7 states them
StatedDefaults ==
    (<<"sentiment">> :> Word("unknown")) @@
    (<<"score">> :> PNum("0.0")) @@
    (<<"key_phrases">> :> PList(<<>>)) @@
    (<<"topics">> :> PList(<<>>)) @@
    (<<"emotional_tone">> :> PList(<<>>))

\* outcome r returns object obj with its keys as parsed and exactly the missing
\* required keys added with their defaults
KeepsAndFills(obj, r) ==
    /\ ~r.raised
    /\ r.v.t = "dict"
    /\ DOMAIN r.v.d = DOMAIN obj.d \cup Required
    /\ \A key \in DOMAIN obj.d : r.v.d[key] = obj.d[key]
    /\ \A key \in Required \ DOMAIN obj.d : r.v.d[key] = StatedDefaults[key]

\* C7: when a JSON object is parsed from the response text, analyze_comment
\* returns that object with every key it had left as parsed and with exactly
\* the missing ones of the five required keys added with their defaults; an
\* object that has the five keys is returned unchanged.
C7_KeysKeptDefaultsFilled ==
    /\ result # Unset =>
            \A obj \in ObjectsParsedFrom(response_text) :
                /\ KeepsAndFills(obj, result)
                /\ Required \subseteq DOMAIN obj.d => result = Returned(obj)
    /\ fenced_result # Unset =>
            \A obj \in ObjectsParsedFrom(fenced_text) :
                /\ KeepsAndFills(obj, fenced_result)
                /\ Required \subseteq DOMAIN obj.d => fenced_result = Returned(obj)

\* an object without topics and emotional_tone, between filler words, was
\* interpreted: the two keys were filled and the other three kept
C7_Witness ==
    /\ result # Unset
    /\ ~JsonLoads(CleanResponse(response_text)).ok
    /\ \E obj \in ObjectsParsedFrom(response_text) :
        /\ DOMAIN obj.d = {<<"sentiment">>, <<"score">>, <<"key_phrases">>}
        /\ obj.d[<<"sentiment">>] = Word("negative")
        /\ obj.d[<<"key_phrases">>] # PList(<<>>)
        /\ ~result.raised
        /\ result.v.d[<<"sentiment">>] = Word("negative")
        /\ result.v.d[<<"topics">>] = PList(<<>>)
        /\ result.v.d[<<"emotional_tone">>] = PList(<<>>)

\* C8 (as claimed): a content text wrapped in a fenced code block, with or
\* without a language hint, is interpreted to the same record as the content
\* text itself.
C8_FencedSameAsUnfenced ==
    (result # Unset /\ fenced_result # Unset) => fenced_result = result

\* no { of the text is followed by a }
NoBracePair(text) ==
    ~ \E a \in 1..Len(text) : \E b \in (a + 1)..Len(text) :
        text[a] = "{" /\ text[b] = "}"

\* C9 (as claimed): a response text without a { } pair is interpreted to the
\* default record (unknown, 0.0, three empty lists, no error field), without a
\* raise.
C9_NoBracesGivesDefault ==
    /\ (result # Unset /\ NoBracePair(response_text)) =>
            result = Returned(PDict(StatedDefaults))
    /\ (fenced_result # Unset /\ NoBracePair(fenced_text)) =>
            fenced_result = Returned(PDict(StatedDefaults))

-----------------------------------------------------------------------------
(* Properties of the retry loop: the error kept, the waits *)

\* the step attaches a record to the current comment
Attaches == pc \in {"while", "attach"} /\ Len(results') = Len(results) + 1

\* the record the step attaches
Attached == results'[Len(results')].sentiment_analysis

\* the loop is left because retry_count has reached max_retries after a failure
RetriesExhausted == pc = "while" /\ retry_count >= max_retries /\ lastOutcome = "raised"

\* C11 (as claimed): when the retry count of a comment reaches max_retries,
\* after quota errors or other errors, the record attached to it is the default
\* record with the error field set to the message of the last failure.
C11_ErrorIsLastFailure ==
    [][ (RetriesExhausted /\ Attaches) =>
            Attached = PDict((<<"error">> :> PStr(lastError)) @@ StatedDefaults) ]_vars

\* the step is a further attempt for the current comment
NextAttempt == pc = "while" /\ attempts' = attempts + 1

\* the seconds (in hundredths) slept by the time.sleep calls of one kind
RECURSIVE SleptOf(_, _)
SleptOf(sleeps, kind) ==
    IF sleeps = <<>> THEN 0
    ELSE (IF Head(sleeps).kind = kind THEN Head(sleeps).secs100 ELSE 0)
         + SleptOf(Tail(sleeps), kind)

\* at a further attempt, the wait since the failure of the attempt before: what
\* the handler slept after the failure and what the attempt sleeps before its call
WaitBeforeAttempt == SleptOf(slept, "quota") + SleptOf(slept', "backoff")

\* C12 (as claimed): after an attempt that failed with a quota error (quota or
\* 429 in the text), the wait before the next attempt of the comment is 15 *
\* retry_count seconds, the exponential backoff not being added to it.
C12_QuotaWaitReplacesBackoff ==
    [][ (NextAttempt /\ lastOutcome = "raised" /\ IsQuotaError(lastError)) =>
            WaitBeforeAttempt = 15 * 100 * retry_count ]_vars

\* C13: no backoff wait precedes the first attempt for a comment; after a
\* failure that is no quota error and leaves retry_count at k >= 1, the wait
\* before the next attempt lies between rate_limit_delay * 0.5 * 2^k and
\* rate_limit_delay * 1.5 * 2^k.
C13_BackoffWithinJitterBounds ==
    [][ NextAttempt =>
            /\ attempts = 0 => SleptOf(slept', "backoff") = 0
            /\ (lastOutcome = "raised" /\ ~IsQuotaError(lastError) /\ retry_count >= 1) =>
                    /\ 2 * WaitBeforeAttempt >= rate_limit_delay * 2^retry_count
                    /\ 2 * WaitBeforeAttempt <= 3 * rate_limit_delay * 2^retry_count
      ]_vars

\* a comment without text has failed three times with max_retries = 3, and the
\* third attempt waited 4.0 seconds first, the least wait for retry_count 2
C13_Witness ==
    /\ pc = "while" /\ max_retries = 3
    /\ "text" \notin DOMAIN Comment
    /\ attempts = 3 /\ retry_count = 3
    /\ lastError = KeyErrorText
    /\ slept = <<Slept("backoff", 400)>>

\* the step makes a model call that is not the first of the run
CallsAgain == calls >= 1 /\ calls' = calls + 1

\* C14 (as claimed): between two consecutive model calls of one run there is at
\* least one time.sleep call (the rate limit wait after the comment, or a wait
\* before or after a failed attempt), whatever the batch the calls fall in.
C14_CallsArePaced ==
    [][ CallsAgain => (waitedSinceCall \/ SleptOf(slept', "backoff") > 0) ]_vars

-----------------------------------------------------------------------------
(* Properties of the summary counts *)

\* the number of result comments whose record has the sentiment label; a
\* record without a sentiment label counts as unknown
Labelled(label) ==
    Cardinality({k \in 1..Len(results) :
        \/ HasLabel(RecordOf(k), label)
        \/ label = "unknown" /\ ~PyIn(<<"sentiment">>, RecordOf(k))})

\* C15 (as claimed): the count the summary reports for each of positive,
\* negative, neutral and unknown is the number of result comments whose
\* sentiment label it is; a comment whose record has the label unknown is
\* counted in counts.unknown.
C15_CountsPerLabel ==
    pc = "summarized" =>
        \A k \in 1..Len(SummaryLabels) :
            summary.counts[SummaryLabels[k]] = Labelled(SummaryLabels[k])

-----------------------------------------------------------------------------
(* Properties of the grouping into batches *)

\* the loop is at a comment: about to test it, or in its retry loop, or
\* attaching its record
AtComment == (pc = "for_comment" /\ j < Len(Batch)) \/ pc \in {"while", "attach"}

\* the step only moves the loop from one batch to the next
BatchStep ==
    /\ pc \in {"for_batch", "for_comment"}
    /\ pc' \in {"for_batch", "for_comment"}
    /\ results' = results

\* C16: for batch_size >= 1 the grouping into batches decides nothing: the
\* comment the loop is at is always the first input comment that has no output
\* yet, whatever batch_size is; the steps from one batch to the next make no
\* model call and no time.sleep call and leave the locals of the retry loop
\* alone; the loop returns only when every input comment has its output.  So
\* the outputs, the model calls and the waits are those of one loop over the
\* comments in input order.
C16_BatchSizeOnlyGroups ==
    /\ [](batch_size >= 1 /\ AtComment =>
            Len(results) < Len(comments) /\ Comment = comments[Len(results) + 1])
    /\ [][ BatchStep =>
            /\ calls' = calls
            /\ slept' = <<>>
            /\ <<retry_count, sentiment_result, fate>>' = <<retry_count, sentiment_result, fate>>
      ]_vars
    /\ [](BatchReturned => Len(results) = Len(comments))

\* two comments, each in a batch of its own, were both sent to the model
C16_Witness ==
    /\ pc = "done" /\ run = 1
    /\ batch_size = 1 /\ Len(comments) = 2 /\ i = 2
    /\ calls = 2
    /\ fate = <<"returned", "returned">>

-----------------------------------------------------------------------------
(* Properties of the truncation *)

\* the first n characters of a str
Prefix(text, n) == SubSeq(text.s, 1, n)

\* C17 (as claimed): the text given to the model is the comment text unchanged
\* when it has at most 1000 characters, and otherwise its first 1000 characters
\* followed by the marker of three dots; the text of the comment stays whole.
C17_TruncatedTo1000PlusMarker ==
    /\ [](prompt_text # Unset =>
            /\ Len(given_text.s) <= 1000 => prompt_text = given_text
            /\ Len(given_text.s) > 1000 =>
                    prompt_text = PStr(Prefix(given_text, 1000) \o <<".", ".", ".">>))
    /\ [][given_text' = given_text]_vars

\* C17 (amended): the text given to the model is the comment text unchanged
\* when it has at most 1000 characters, and otherwise its first 997 characters
\* followed by the marker of three dots, 1000 characters in all; the text of
\* the comment stays whole.
C17_TruncatedTo997PlusMarker ==
    /\ [](prompt_text # Unset =>
            /\ Len(given_text.s) <= 1000 => prompt_text = given_text
            /\ Len(given_text.s) > 1000 =>
                    /\ Len(prompt_text.s) = 1000
                    /\ Prefix(prompt_text, 997) = Prefix(given_text, 997)
                    /\ SubSeq(prompt_text.s, 998, 1000) = <<".", ".", ".">>)
    /\ [][given_text' = given_text]_vars

\* a text of 1001 characters was cut
C17_Witness ==
    /\ Len(given_text.s) = 1001
    /\ prompt_text # Unset
    /\ Len(prompt_text.s) = 1000
    /\ prompt_text.s[997] = given_text.s[997]
    /\ prompt_text.s[998] = "."

-----------------------------------------------------------------------------
(* Properties of the input *)

\* C18: a call of analyze_comments_batch changes neither its input list nor a
\* comment of it: no step of the call changes comments, an input comment that
\* carried no record still carries none, and the output comment that carries
\* the record has the fields and values of the input comment.
C18_InputNotModified ==
    /\ [][run' = run => comments' = comments]_vars
    /\ [](\A k \in 1..Len(results) :
            fate[k] # "skip" =>
                /\ ~AlreadyAnalyzed(comments[k])
                /\ AlreadyAnalyzed(results[k])
                /\ \A f \in DOMAIN comments[k] : results[k][f] = comments[k][f])

\* a call has returned two annotated copies of two comments that carry no record
C18_Witness ==
    /\ pc = "done" /\ run = 1
    /\ Len(comments) = 2 /\ Len(results) = 2
    /\ ~AlreadyAnalyzed(comments[1]) /\ ~AlreadyAnalyzed(comments[2])
    /\ AlreadyAnalyzed(results[1]) /\ AlreadyAnalyzed(results[2])
    /\ "text" \in DOMAIN comments[1]
    /\ results[1].text = comments[1].text

-----------------------------------------------------------------------------
(* Properties of a failed model call *)

\* the record with the label error and the error text msg
ErrorRecord(msg) ==
    PDict((<<"error">> :> PStr(msg)) @@ (<<"sentiment">> :> Word("error")) @@ StatedDefaults)

\* the current comment has a str as text: only the model call can fail for it
PlainComment == "text" \in DOMAIN Comment /\ Comment.text.t = "str"

====
